---- MODULE Spec2Model ----
(***************************************************************************)
(* projanitor.py: main() locates the project root (find_project_root),     *)
(* walks it once (analyze_project_files) and classifies the result         *)
(* (generate_report).  The filesystem is the program's input: a directory  *)
(* skeleton whose marker files, permissions and symlinks are drawn in      *)
(* Init.  A directory path is the sequence of its components below "/";    *)
(* a file is [dir |-> path, name |-> segments], the name split at its dots *)
(* ("util.c" is <<"util", "c">>).                                          *)
(***************************************************************************)
EXTENDS Integers, Sequences, FiniteSets, TLC

\* ------------------------------------------------------------------ bounds
MaxMarked == 2       \* directories holding a marker file
MaxDenied == 1       \* directories with a permission taken away
MaxDirLinks == 1     \* directories that are symbolic links
MaxFileLinks == 1    \* files that are symbolic links

\* ------------------------------------------------------- program constants
MAX_SEARCH_DEPTH == 3

DEFAULT_FOLDERS_TO_EXCLUDE == {".git", "build", "build_logs", "doc"}

VALID_EXTENSIONS == {"c", "h", "json", "py", "cmake", "md", "sh"}

VALID_FILENAMES == {<<"CMakeLists", "txt">>}

\* Optional[Path]: the value find_project_root returns when it fails.
None == <<"None">>

\* ------------------------------------------------------------ path algebra
\* Path.parent: the parent of "/" is "/".
Parent(p) == IF p = <<>> THEN <<>> ELSE SubSeq(p, 1, Len(p) - 1)

\* Path.parts of an absolute path, without the anchor "/".
Parts(p) == {p[i] : i \in 1..Len(p)}

\* Path.name of a directory.
DirName(p) == IF p = <<>> THEN "" ELSE p[Len(p)]

IsPrefix(p, q) == Len(p) <= Len(q) /\ SubSeq(q, 1, Len(p)) = p

\* q lies strictly below p.
Below(q, p) == IsPrefix(p, q) /\ Len(q) > Len(p)

\* Path.suffix without its dot ("" when the name has no dot).
Suffix(name) == IF Len(name) > 1 THEN name[Len(name)] ELSE ""

\* str.lower on the name segments that occur in the tree.
Lower(s) == IF s = "CMakeLists" THEN "cmakelists" ELSE s

\* str < str on the segments that occur in the tree: their lexicographic
\* (code point) order.
SegmentOrder ==
    <<"CMakeLists", "a", "build", "c", "cmake", "core", "doc", "foo", "h",
      "helpers", "hidden", "home", "lib", "main", "notes", "pkg", "proj",
      "py", "secret", "src", "sub", "t", "test", "txt", "util", "util_v2",
      "x">>

Rank(s) == CHOOSE i \in 1..Len(SegmentOrder) : SegmentOrder[i] = s

\* str < str on names: "." sorts below every character of a segment, so the
\* order of two dotted names is the lexicographic order of their segments.
RECURSIVE NameLess(_, _)
NameLess(a, b) ==
    IF a = <<>> THEN b # <<>>
    ELSE IF b = <<>> THEN FALSE
    ELSE IF a[1] # b[1] THEN Rank(a[1]) < Rank(b[1])
    ELSE NameLess(Tail(a), Tail(b))

\* Path.parts of a file: the directory components, then the name.
FileParts(f) ==
    [i \in 1..(Len(f.dir) + 1) |->
        IF i <= Len(f.dir) THEN <<f.dir[i]>> ELSE f.name]

RECURSIVE PartsLess(_, _)
PartsLess(a, b) ==
    IF a = <<>> THEN b # <<>>
    ELSE IF b = <<>> THEN FALSE
    ELSE IF a[1] # b[1] THEN NameLess(a[1], b[1])
    ELSE PartsLess(Tail(a), Tail(b))

\* PurePath.__lt__: paths compare as their lists of parts.
PathLess(f, g) == PartsLess(FileParts(f), FileParts(g))

\* sorted(): the elements of a finite set in ascending order.
RECURSIVE SortedNames(_)
SortedNames(S) ==
    IF S = {} THEN <<>>
    ELSE LET m == CHOOSE x \in S : \A y \in S \ {x} : NameLess(x, y)
         IN <<m>> \o SortedNames(S \ {m})

RECURSIVE SortedPaths(_)
SortedPaths(S) ==
    IF S = {} THEN <<>>
    ELSE LET m == CHOOSE x \in S : \A y \in S \ {x} : PathLess(x, y)
         IN <<m>> \o SortedPaths(S \ {m})

Range(s) == {s[i] : i \in 1..Len(s)}

\* ------------------------------------------------------ the tree (input)
Home == <<"home">>
Doc == <<"home", "doc">>
Proj == <<"home", "doc", "proj">>
Src == <<"home", "doc", "proj", "src">>
Lib == <<"home", "doc", "proj", "src", "lib">>
Core == <<"home", "doc", "proj", "src", "lib", "core">>
Build == <<"home", "doc", "proj", "src", "build">>
Test == <<"home", "doc", "proj", "test">>

Dirs == {<<>>, Home, Doc, Proj, Src, Lib, Core, Build, Test}

\* The directory entries of d that are directories (or links to one).
ChildDirs(d) == {c \in Dirs : c # <<>> /\ Parent(c) = d}

File(d, n) == [dir |-> d, name |-> n]

Files ==
    { File(Proj, <<"CMakeLists", "txt">>), File(Proj, <<"notes", "txt">>),
      File(Src, <<"main", "c">>), File(Src, <<"util", "c">>),
      File(Src, <<"a", "py">>),
      File(Lib, <<"util", "c">>), File(Lib, <<"util", "h">>),
      File(Lib, <<"helpers", "py">>), File(Lib, <<"x", "cmake">>),
      File(Build, <<"secret", "c">>),
      File(Test, <<"t", "py">>), File(Test, <<"util", "c">>),
      File(Home, <<"util_v2", "h">>) }

FilesIn(d) == {f \in Files : f.dir = d}

\* What the symbolic link f points at, when f is one.
LinkTarget(f) ==
    IF f = File(Lib, <<"util", "h">>) THEN File(Home, <<"util_v2", "h">>)
    ELSE IF f = File(Test, <<"util", "c">>) THEN File(Src, <<"util", "c">>)
    ELSE f

\* An include operand is a relative path: its components, ".." among them.
Up == <<"..">>

\* The operands of the #include "..." directives in the lines of f.
Includes(f) ==
    IF f = File(Src, <<"main", "c">>)
        THEN { << <<"foo", "h">> >>, << <<"lib">>, <<"util", "h">> >> }
    ELSE IF f = File(Lib, <<"util", "c">>)
        THEN { << <<"util", "h">> >>, << Up, <<"main", "c">> >> }
    ELSE IF f = File(Build, <<"secret", "c">>)
        THEN { << <<"hidden", "h">> >> }
    ELSE {}

\* The words name.ext (ext a known extension) in the lines of f.
Tokens(f) ==
    IF f = File(Proj, <<"CMakeLists", "txt">>) THEN { <<"main", "c">> }
    ELSE IF f = File(Lib, <<"x", "cmake">>)
        THEN { <<"x", "cmake">>, <<"util", "c">> }
    ELSE {}

\* The dotted paths of the "from ... import" lines of f.
FromImports(f) ==
    IF f = File(Src, <<"a", "py">>)
        THEN { <<"a">>, <<"pkg", "sub", "helpers">> }
    ELSE IF f = File(Test, <<"t", "py">>) THEN { <<"helpers">> }
    ELSE {}

\* The directories main() may be started in.
Starts == {Src, Proj, Home}

MarkerCandidates == Dirs \ {<<>>}

DenyCandidates == {Lib, Test}

DirLinkCandidates == {Lib, Test}

FileLinkCandidates == {File(Lib, <<"util", "h">>), File(Test, <<"util", "c">>)}

\* --exclude-dirs as given on the command line.
ExcludeChoices == {DEFAULT_FOLDERS_TO_EXCLUDE, {"build"}}

AtMost(S, n) == {T \in SUBSET S : Cardinality(T) <= n}

VARIABLES
    start_path,      \* Path(".").resolve()
    marked,          \* directories in which some marker file is a regular file
    locked,          \* directories with neither read nor search permission
    unlistable,      \* directories with search but no read permission
    dirlinks,        \* directories that are symbolic links
    filelinks,       \* files that are symbolic links
    exclude_dirs,    \* set(args.exclude_dirs.split(","))
    pc,              \* the statement main() is at
    checked, up_paths, up_idx, queue, folder_idx, pending, next_level, depth,
    root_path,
    walk_stack,      \* the directories os.walk has still to yield, next first
    list_exist, list_referenced, found_files_map, key_subfolders, no_go_areas,
    opened,          \* the files analyze_project_files has opened
    orphan_basenames, missing_basenames, warnings

fsVars == <<start_path, marked, locked, unlistable, dirlinks, filelinks,
            exclude_dirs>>

rootVars == <<checked, up_paths, up_idx, queue, folder_idx, pending,
              next_level, depth>>

scanVars == <<walk_stack, list_exist, list_referenced, found_files_map,
              key_subfolders, no_go_areas, opened>>

reportVars == <<orphan_basenames, missing_basenames, warnings>>

vars == <<fsVars, pc, rootVars, root_path, scanVars, reportVars>>

\* start_path is resolved and is the working directory: no directory on it
\* is a symbolic link, and each can be searched.
Init ==
    /\ start_path \in Starts
    /\ marked \in AtMost(MarkerCandidates, MaxMarked)
    /\ locked \in AtMost(DenyCandidates, MaxDenied)
    /\ unlistable \in AtMost(DenyCandidates \ locked,
                             MaxDenied - Cardinality(locked))
    /\ dirlinks \in AtMost(DirLinkCandidates, MaxDirLinks)
    /\ filelinks \in AtMost(FileLinkCandidates, MaxFileLinks)
    /\ \A d \in locked \cup dirlinks : ~IsPrefix(d, start_path)
    /\ exclude_dirs \in ExcludeChoices
    /\ pc = "collect_up"
    /\ checked = {}
    /\ up_paths = <<>>
    /\ up_idx = 0
    /\ queue = <<>>
    /\ folder_idx = 0
    /\ pending = {}
    /\ next_level = <<>>
    /\ depth = 0
    /\ root_path = None
    /\ walk_stack = <<>>
    /\ list_exist = {}
    /\ list_referenced = <<>>
    /\ found_files_map = <<>>
    /\ key_subfolders = {}
    /\ no_go_areas = {}
    /\ opened = {}
    /\ orphan_basenames = <<>>
    /\ missing_basenames = <<>>
    /\ warnings = <<>>

\* ------------------------------------------------------ find_project_root
\* Lines 89-98: start_path, then each parent not seen yet, n levels up.
RECURSIVE CollectParents(_, _, _)
CollectParents(curr, ups, n) ==
    IF n = 0 THEN ups
    ELSE LET p == Parent(curr)
         IN CollectParents(p, IF p \in Range(ups) THEN ups ELSE Append(ups, p),
                           n - 1)

CollectUp ==
    /\ pc = "collect_up"
    /\ up_paths' = CollectParents(start_path, <<start_path>>, MAX_SEARCH_DEPTH)
    /\ checked' = Range(up_paths')
    /\ pc' = "check_up"
    /\ UNCHANGED <<fsVars, up_idx, queue, folder_idx, pending, next_level,
                   depth, root_path, scanVars, reportVars>>

\* any((path / marker).is_file() for marker in marker_files)
HasMarker(path) == path \in marked

\* The upward loop run outward-in: the marked path farthest from the start.
FarthestMarked(paths) ==
    IF \E i \in 1..Len(paths) : HasMarker(paths[i])
    THEN CHOOSE i \in 1..Len(paths) :
            /\ HasMarker(paths[i])
            /\ \A j \in (i + 1)..Len(paths) : ~HasMarker(paths[j])
    ELSE 0

\* Lines 101-104: the index of the path the upward loop returns, 0 if none.
FirstMarked(paths) ==
    IF \E i \in 1..Len(paths) : HasMarker(paths[i])
    THEN CHOOSE i \in 1..Len(paths) :
            /\ HasMarker(paths[i])
            /\ \A j \in 1..(i - 1) : ~HasMarker(paths[j])
    ELSE 0

CheckUpwards ==
    /\ pc = "check_up"
    /\ LET i == FirstMarked(up_paths)
       IN IF i # 0
          THEN /\ root_path' = up_paths[i]
               /\ pc' = "analyze"
          ELSE /\ root_path' = root_path
               /\ pc' = "down_up"
    /\ UNCHANGED <<fsVars, rootVars, scanVars, reportVars>>

\* Lines 107-111: the next ancestor starts a search of its own; the while
\* test holds on entry (queue = [up], depth = 0).
NextUp ==
    /\ pc = "down_up"
    /\ up_idx < Len(up_paths)
    /\ up_idx' = up_idx + 1
    /\ queue' = <<up_paths[up_idx + 1]>>
    /\ depth' = 0
    /\ next_level' = <<>>
    /\ folder_idx' = 1
    /\ pending' = {}
    /\ pc' = "down_folder"
    /\ UNCHANGED <<fsVars, checked, up_paths, root_path, scanVars, reportVars>>

\* Lines 130-131 and main() 340-341: every ancestor searched, nothing found.
RootNotFound ==
    /\ pc = "down_up"
    /\ up_idx = Len(up_paths)
    /\ root_path' = None
    /\ pc' = "exit_1"
    /\ UNCHANGED <<fsVars, rootVars, scanVars, reportVars>>

\* The for loop over queue moves on; after the last folder, lines 127-128
\* and the while test of line 110.
FolderDone(level) ==
    IF folder_idx < Len(queue)
    THEN /\ folder_idx' = folder_idx + 1
         /\ next_level' = level
         /\ pc' = "down_folder"
         /\ UNCHANGED <<queue, depth>>
    ELSE /\ queue' = level
         /\ depth' = depth + 1
         /\ next_level' = <<>>
         /\ folder_idx' = 1
         /\ pc' = IF level # <<>> /\ depth + 1 < MAX_SEARCH_DEPTH
                  THEN "down_folder" ELSE "down_up"

\* folder.iterdir() needs read permission on folder.
CanList(folder) == folder \notin locked \cup unlistable

\* Line 114: the entries of folder, in no particular order.
ListFolder ==
    /\ pc = "down_folder"
    /\ CanList(queue[folder_idx])
    /\ pending' = ChildDirs(queue[folder_idx])
    /\ pc' = "down_sub"
    /\ UNCHANGED <<fsVars, checked, up_paths, up_idx, queue, folder_idx,
                   next_level, depth, root_path, scanVars, reportVars>>

\* Lines 114, 121-123: iterdir raises PermissionError, the folder is skipped.
ListFolderDenied ==
    /\ pc = "down_folder"
    /\ ~CanList(queue[folder_idx])
    /\ FolderDone(next_level)
    /\ pending' = {}
    /\ UNCHANGED <<fsVars, checked, up_paths, up_idx, root_path, scanVars,
                   reportVars>>

\* Line 115: entries that are files fail is_dir() and are not modelled.
Eligible(sub) == sub \notin dirlinks /\ sub \notin checked

\* Line 115 false: the entry is passed over.
SkipSub ==
    /\ pc = "down_sub"
    /\ \E sub \in pending :
        /\ ~Eligible(sub)
        /\ pending' = pending \ {sub}
    /\ UNCHANGED <<fsVars, pc, checked, up_paths, up_idx, queue, folder_idx,
                   next_level, depth, root_path, scanVars, reportVars>>

\* (sub / marker).is_file() needs search permission on sub: without it
\* stat() fails with EACCES, which is_file() raises as PermissionError.
CanSearch(sub) == sub \notin locked

\* Lines 116-119: a marker in sub, sub is returned.
FoundRoot ==
    /\ pc = "down_sub"
    /\ \E sub \in pending :
        /\ Eligible(sub)
        /\ CanSearch(sub)
        /\ HasMarker(sub)
        /\ checked' = checked \cup {sub}
        /\ root_path' = sub
    /\ pc' = "analyze"
    /\ UNCHANGED <<fsVars, up_paths, up_idx, queue, folder_idx, pending,
                   next_level, depth, scanVars, reportVars>>

\* Lines 116-117, 120: no marker in sub, sub waits for the next level.
EnqueueSub ==
    /\ pc = "down_sub"
    /\ \E sub \in pending :
        /\ Eligible(sub)
        /\ CanSearch(sub)
        /\ ~HasMarker(sub)
        /\ checked' = checked \cup {sub}
        /\ next_level' = Append(next_level, sub)
        /\ pending' = pending \ {sub}
    /\ UNCHANGED <<fsVars, pc, up_paths, up_idx, queue, folder_idx, depth,
                   root_path, scanVars, reportVars>>

\* Lines 116-117, 121-123: is_file raises inside the for loop over the
\* entries of folder; the handler sits outside that loop, so the entries
\* of folder not yet seen are given up with it.
SubPermissionError ==
    /\ pc = "down_sub"
    /\ \E sub \in pending :
        /\ Eligible(sub)
        /\ ~CanSearch(sub)
        /\ checked' = checked \cup {sub}
    /\ pending' = {}
    /\ FolderDone(next_level)
    /\ UNCHANGED <<fsVars, up_paths, up_idx, root_path, scanVars, reportVars>>

\* The for loop over the entries of folder ends.
EntriesDone ==
    /\ pc = "down_sub"
    /\ pending = {}
    /\ FolderDone(next_level)
    /\ UNCHANGED <<fsVars, checked, up_paths, up_idx, pending, root_path,
                   scanVars, reportVars>>

\* ------------------------------------------------- analyze_project_files
\* Lines 166-173: the accumulators are empty, os.walk starts at the root.
StartAnalyze ==
    /\ pc = "analyze"
    /\ walk_stack' = <<root_path>>
    /\ list_exist' = {}
    /\ list_referenced' = <<>>
    /\ found_files_map' = <<>>
    /\ key_subfolders' = {}
    /\ no_go_areas' = {}
    /\ opened' = {}
    /\ pc' = "walk"
    /\ UNCHANGED <<fsVars, rootVars, root_path, reportVars>>

\* Line 157.
matches_interest_patterns(name) ==
    name \in VALID_FILENAMES \/ Suffix(name) \in VALID_EXTENSIONS

\* The loop of line 191 without the test of line 193.
NeverSymlink(f) == FALSE

\* Line 193: file_path.is_symlink().
IsSymlink(f) == f \in filelinks

\* file_path.parent / ref: the operand joined to the directory, ".." taken
\* out as resolve() does.
RECURSIVE Join(_, _)
Join(dir, ref) ==
    IF Len(ref) = 1 THEN File(dir, ref[1])
    ELSE IF ref[1] = Up THEN Join(Parent(dir), Tail(ref))
    ELSE Join(Append(dir, ref[1][1]), Tail(ref))

\* Lines 211, 224: (file_path.parent / ref).resolve().name.  resolve() is
\* not strict: a path that does not exist resolves to itself and nothing
\* is raised; a symbolic link resolves to what it points at.
ResolvedName(dir, ref) ==
    LET target == Join(dir, ref)
    IN IF target \in Files /\ target \in filelinks
       THEN LinkTarget(target).name
       ELSE target.name

\* Line 233: f"{ref}.py", ref the whole dotted path.
ImportKey(ref) == ref \o <<"py">>

\* Line 217: name.lower().endswith((".cmake", "cmakelists.txt")).
IsBuildScript(name) ==
    \/ Len(name) > 1 /\ Lower(name[Len(name)]) = "cmake"
    \/ /\ Len(name) > 1
       /\ Lower(name[Len(name) - 1]) = "cmakelists"
       /\ Lower(name[Len(name)]) = "txt"

\* Lines 205-233: the basenames the lines of f refer to.
ExtractRefs(f) ==
    IF Suffix(f.name) \in {"c", "h"}
        THEN {ResolvedName(f.dir, ref) : ref \in Includes(f)}
    ELSE IF IsBuildScript(f.name)
        THEN {ResolvedName(f.dir, <<tok>>) : tok \in Tokens(f)}
    ELSE IF Suffix(f.name) = "py"
        THEN {ImportKey(ref) : ref \in FromImports(f)}
    ELSE {}

\* found_files_map[file_path.name].append(file_path), for each file of S
\* (the names in one directory differ, so their order does not show).
RECURSIVE AddFound(_, _)
AddFound(map, S) ==
    IF S = {} THEN map
    ELSE LET f == CHOOSE x \in S : TRUE
             new == IF f.name \in DOMAIN map
                    THEN [map EXCEPT ![f.name] = Append(@, f)]
                    ELSE (f.name :> <<f>>) @@ map
         IN AddFound(new, S \ {f})

\* list_referenced[ref_path].add(file_path), for each reference of each
\* file of S.
AddReferenced(map, S) ==
    LET keys == DOMAIN map \cup UNION {ExtractRefs(f) : f \in S}
    IN [k \in keys |->
          (IF k \in DOMAIN map THEN map[k] ELSE {})
          \cup {f \in S : k \in ExtractRefs(f)}]

\* Line 182: any(x in current_path.parts for x in exclude_dirs).
SkipsProcessing(current_path) == Parts(current_path) \cap exclude_dirs # {}

\* The sequences that list the elements of S once each.
Orders(S) ==
    {o \in [1..Cardinality(S) -> S] : \A x \in S : \E i \in DOMAIN o : o[i] = x}

\* One iteration of the loop of line 173.  os.walk lists current_path,
\* the body prunes dirnames and reads the files, and os.walk then descends
\* into the directories left in dirnames that are not symbolic links, in
\* the order of the listing.  list_exist, key_subfolders and no_go_areas
\* are kept as sets: the report reads them only sorted or counted.
WalkDir ==
    /\ pc = "walk"
    /\ walk_stack # <<>>
    /\ CanList(Head(walk_stack))
    /\ LET current_path == Head(walk_stack)
           original_dirs == ChildDirs(current_path)
           dirnames == {d \in original_dirs : DirName(d) \notin exclude_dirs}
           files == IF SkipsProcessing(current_path) THEN {}
                    ELSE {f \in FilesIn(current_path) : ~IsSymlink(f)}
           found == {f \in files : matches_interest_patterns(f.name)}
       IN /\ no_go_areas' = no_go_areas \cup (original_dirs \ dirnames)
          /\ key_subfolders' =
                IF SkipsProcessing(current_path) \/ current_path = root_path
                THEN key_subfolders
                ELSE key_subfolders \cup {current_path}
          /\ list_exist' = list_exist \cup found
          /\ found_files_map' = AddFound(found_files_map, found)
          /\ opened' = opened \cup files
          /\ list_referenced' = AddReferenced(list_referenced, files)
          /\ \E order \in Orders(dirnames \ dirlinks) :
                walk_stack' = order \o Tail(walk_stack)
    /\ UNCHANGED <<fsVars, pc, rootVars, root_path, reportVars>>

\* os.walk cannot list the directory: with onerror=None the error is
\* dropped and the directory yields nothing.
WalkUnreadable ==
    /\ pc = "walk"
    /\ walk_stack # <<>>
    /\ ~CanList(Head(walk_stack))
    /\ walk_stack' = Tail(walk_stack)
    /\ UNCHANGED <<fsVars, pc, rootVars, root_path, list_exist,
                   list_referenced, found_files_map, key_subfolders,
                   no_go_areas, opened, reportVars>>

\* -------------------------------------------------------- generate_report
\* Line 261.
OrphanBasenames(exist_set, ref_set) == SortedNames(exist_set \ ref_set)

\* Line 262 without the set difference.
AllReferenced(exist_set, ref_set) == SortedNames(ref_set)

\* Line 262.
MissingBasenames(exist_set, ref_set) == SortedNames(ref_set \ exist_set)

\* Line 297: name.lower().endswith(ext.lower()).
EndsWithExt(name, ext) == Len(name) > 1 /\ Lower(name[Len(name)]) = Lower(ext)

\* Lines 298-300: the paths printed for one duplicated name.
DupLines(paths) == <<paths[1]>> \o Tail(SortedPaths(Range(paths)))

\* Lines 296-301 for one extension: an entry per duplicated name.
DupEntries(ext, map) ==
    LET names == SortedNames(DOMAIN map)
        IsDup(n) == EndsWithExt(n, ext) /\ Len(map[n]) > 1
        dups == SelectSeq(names, IsDup)
    IN [i \in 1..Len(dups) |->
          [ext |-> ext, name |-> dups[i], lines |-> DupLines(map[dups[i]])]]

\* Line 293.
TrackedExtensions == <<"c", "h", "py", "sh">>

\* Lines 259-321, once os.walk is exhausted: the Warnings and Errors
\* sections of the report.
GenerateReport ==
    /\ pc = "walk"
    /\ walk_stack = <<>>
    /\ LET exist_set == {f.name : f \in list_exist}
           ref_set == DOMAIN list_referenced
       IN /\ orphan_basenames' = OrphanBasenames(exist_set, ref_set)
          /\ missing_basenames' = MissingBasenames(exist_set, ref_set)
    /\ warnings' = DupEntries(TrackedExtensions[1], found_files_map)
                   \o DupEntries(TrackedExtensions[2], found_files_map)
                   \o DupEntries(TrackedExtensions[3], found_files_map)
                   \o DupEntries(TrackedExtensions[4], found_files_map)
    /\ pc' = "done"
    /\ UNCHANGED <<fsVars, rootVars, root_path, scanVars>>

Next ==
    \/ CollectUp
    \/ CheckUpwards
    \/ NextUp
    \/ RootNotFound
    \/ ListFolder
    \/ ListFolderDenied
    \/ SkipSub
    \/ FoundRoot
    \/ EnqueueSub
    \/ SubPermissionError
    \/ EntriesDone
    \/ StartAnalyze
    \/ WalkDir
    \/ WalkUnreadable
    \/ GenerateReport

Spec == Init /\ [][Next]_vars

\* ------------------------------------------------------------- properties
\* find_project_root has returned (with a directory or with None).
Returned == pc \in {"analyze", "walk", "done", "exit_1"}

\* The k-th parent of the start directory.
RECURSIVE Ancestor(_, _)
Ancestor(p, k) == IF k = 0 THEN p ELSE Ancestor(Parent(p), k - 1)

\* The ancestor chain: the start directory and up to MAX_SEARCH_DEPTH parents.
Chain == {Ancestor(start_path, k) : k \in 0..MAX_SEARCH_DEPTH}

ChainMarked == Chain \cap marked # {}

\* C1: when a directory of the ancestor chain holds a marker file,
\* find_project_root returns the marked chain directory nearest to the
\* start directory (so never a descendant, and the start directory itself
\* when it is marked).
C1_NearestAncestor ==
    (Returned /\ ChainMarked) =>
        \E k \in 0..MAX_SEARCH_DEPTH :
            /\ root_path = Ancestor(start_path, k)
            /\ root_path \in marked
            /\ \A j \in 0..(k - 1) : Ancestor(start_path, j) \notin marked

\* C1 witness: the start directory and its grandparent both hold a marker
\* and the start directory was returned.
C1_Witness ==
    /\ Returned
    /\ start_path \in marked
    /\ Ancestor(start_path, 2) \in marked
    /\ Ancestor(start_path, 2) # start_path
    /\ root_path = start_path

\* d can be reached from the chain directory a by listing directories:
\* at most MAX_SEARCH_DEPTH levels below a, no directory on the way (d
\* included) a symbolic link or unsearchable, every directory listed on the
\* way readable.
ReachableBelow(a, d) ==
    /\ Below(d, a)
    /\ Len(d) - Len(a) <= MAX_SEARCH_DEPTH
    /\ a \notin unlistable
    /\ \A e \in Dirs :
        (Below(e, a) /\ IsPrefix(e, d)) =>
            /\ e \notin dirlinks \cup locked
            /\ e # d => e \notin unlistable

MarkedDescendants == {d \in marked : \E a \in Chain : ReachableBelow(a, d)}

\* C2: when no chain directory holds a marker but an accessible directory
\* at depth 1..3 below a chain directory does, find_project_root returns a
\* marked directory at depth <= 3 below a chain directory.
C2_DescendantReturned ==
    (Returned /\ ~ChainMarked /\ MarkedDescendants # {}) =>
        /\ root_path \in marked
        /\ \E a \in Chain :
            Below(root_path, a) /\ Len(root_path) - Len(a) <= MAX_SEARCH_DEPTH

\* The components of r below the deepest chain directory above it: the
\* names the downward search went through to reach r.
SearchedNames(r) ==
    LET m == CHOOSE n \in 0..Len(r) :
                /\ SubSeq(r, 1, n) \in Chain
                /\ \A k \in (n + 1)..Len(r) : SubSeq(r, 1, k) \notin Chain
    IN {r[i] : i \in (m + 1)..Len(r)}

\* C3: the root search never returns a directory it reached through an
\* excluded name (the directory itself or one above it), and every
\* excluded directory next to a walked directory is in no_go_areas.
C3_ExcludedNeverRoot ==
    /\ (Returned /\ root_path # None /\ root_path \notin Chain) =>
            SearchedNames(root_path) \cap exclude_dirs = {}
    /\ pc = "done" =>
            \A d \in Dirs :
                (/\ DirName(d) \in exclude_dirs
                 /\ Parent(d) \in key_subfolders \cup {root_path}
                 /\ d # <<>>) => d \in no_go_areas

ExistingBasenames == {f.name : f \in list_exist}

\* C4: orphans and missing basenames are disjoint: every orphan is a
\* cataloged basename, no missing basename is.
C4_OrphansMissingDisjoint ==
    pc = "done" =>
        /\ Range(orphan_basenames) \cap Range(missing_basenames) = {}
        /\ Range(orphan_basenames) \subseteq ExistingBasenames
        /\ Range(missing_basenames) \cap ExistingBasenames = {}

\* C4 witness: a report with both an orphan and a missing basename.
C4_Witness ==
    /\ pc = "done"
    /\ orphan_basenames # <<>>
    /\ missing_basenames # <<>>

\* C5: every duplicated basename of a tracked extension has exactly one
\* Warnings entry under that extension, listing each of its paths once.
C5_DuplicatesListedOnce ==
    pc = "done" =>
        \A name \in DOMAIN found_files_map :
            \A e \in DOMAIN TrackedExtensions :
                (/\ Len(found_files_map[name]) > 1
                 /\ Suffix(name) = TrackedExtensions[e]) =>
                    /\ Cardinality({i \in DOMAIN warnings :
                            /\ warnings[i].name = name
                            /\ warnings[i].ext = TrackedExtensions[e]}) = 1
                    /\ \A i \in DOMAIN warnings :
                        (/\ warnings[i].name = name
                         /\ warnings[i].ext = TrackedExtensions[e]) =>
                            \A f \in Range(found_files_map[name]) :
                                Cardinality({j \in DOMAIN warnings[i].lines :
                                    warnings[i].lines[j] = f}) = 1

\* C6: a quoted include whose target does not exist is dropped: the
\* including file is not recorded as referencing that basename, and the
\* basename is not reported missing.
C6_UnresolvedIncludeDropped ==
    pc = "done" =>
        \A f \in opened :
            Suffix(f.name) \in {"c", "h"} =>
                \A ref \in Includes(f) :
                    Join(f.dir, ref) \notin Files =>
                        LET name == ref[Len(ref)]
                        IN /\ ~(/\ name \in DOMAIN list_referenced
                                /\ f \in list_referenced[name])
                           /\ name \notin Range(missing_basenames)

\* C7: a "from <dotted path> import" line of a .py file records the last
\* segment of the path plus ".py" as referenced by that file, and that
\* basename is reported missing when no such file is cataloged.
C7_ImportLastSegment ==
    pc = "done" =>
        \A f \in opened :
            Suffix(f.name) = "py" =>
                \A ref \in FromImports(f) :
                    LET key == <<ref[Len(ref)], "py">>
                    IN /\ key \in DOMAIN list_referenced
                       /\ f \in list_referenced[key]
                       /\ key \notin ExistingBasenames =>
                            key \in Range(missing_basenames)

NoSymlinkOnPath(d) == \A l \in dirlinks : ~IsPrefix(l, d)

\* C8: no cataloged or opened file is a symbolic link or lies beneath a
\* symlinked directory, and neither the downward root search nor os.walk
\* enters a symlinked directory or returns one as root.
C8_SymlinksNeverFollowed ==
    /\ \A f \in list_exist \cup opened :
            f \notin filelinks /\ NoSymlinkOnPath(f.dir)
    /\ \A n \in DOMAIN found_files_map :
            \A f \in Range(found_files_map[n]) :
                f \notin filelinks /\ NoSymlinkOnPath(f.dir)
    /\ \A d \in Range(queue) \cup Range(next_level) \cup Range(walk_stack)
                \cup key_subfolders : NoSymlinkOnPath(d)
    /\ root_path # None => NoSymlinkOnPath(root_path)

\* C8 witness: a finished scan of a tree in which a walked directory holds
\* a symlinked file and a symlinked directory, found after a downward
\* search.
C8_Witness ==
    /\ pc = "done"
    /\ list_exist # {}
    /\ root_path \notin Chain
    /\ \E f \in filelinks : f.dir \in key_subfolders \cup {root_path}
    /\ \E d \in dirlinks : Parent(d) \in key_subfolders \cup {root_path}

\* C9: a cataloged file with a unique basename is an orphan exactly when
\* no file other than itself yields a reference to its basename.
C9_OrphanIffNoOtherReference ==
    pc = "done" =>
        \A f \in list_exist :
            Len(found_files_map[f.name]) = 1 =>
                (f.name \in Range(orphan_basenames)
                    <=> ~\E g \in opened \ {f} : f.name \in ExtractRefs(g))

\* The directories os.walk can reach from the root through names outside
\* the exclusion set, without entering a symbolic link or an unreadable
\* directory.
WalkableFromRoot ==
    {d \in Dirs :
        /\ IsPrefix(root_path, d)
        /\ CanList(d)
        /\ \A k \in (Len(root_path) + 1)..Len(d) :
            /\ d[k] \notin exclude_dirs
            /\ SubSeq(d, 1, k) \notin dirlinks
            /\ CanList(SubSeq(d, 1, k))}

\* C10: exclusion is relative to the root: the catalog holds exactly the
\* files of interest, not symbolic links, in the directories reachable
\* from the root through names outside the exclusion set, whatever the
\* names of the directories above the root.
C10_ExclusionRelativeToRoot ==
    pc = "done" =>
        list_exist = {f \in Files :
                        /\ f.dir \in WalkableFromRoot
                        /\ f \notin filelinks
                        /\ matches_interest_patterns(f.name)}
====
